---- MODULE Spec2Model ----
(***************************************************************************)
(* The video acquisition pipeline of StateAffairsInterview: the record     *)
(* store (src/database/db_manager.py), the Celery tasks                    *)
(* (src/workers/tasks.py), the download service and the downloader         *)
(* (src/services/download_service.py, src/downloaders/video_downloader.py).*)
(*                                                                         *)
(* Every database call of the code is its own transaction, so a task is    *)
(* modelled as a sequence of steps, one per stretch of code between two    *)
(* long-running external calls; workers interleave between the steps.      *)
(***************************************************************************)
EXTENDS Integers, Sequences, FiniteSets, TLC

(* ------------------------------ bounds -------------------------------- *)

\* tasks handed to the broker in one behaviour
MaxDispatch == 5
\* rows of the transcripts table in one behaviour
MaxTranscripts == 2
\* videos returned by one discovery run
MaxBatch == 1

\* DownloadService.__init__(max_retries=3) -> VideoDownloader(max_retries)
max_retries == 3

VideoIds == {"v1"}
Sources == {"house", "senate"}
Workers == {1, 2}

\* Python None for strings, and for paths
None == "None"
NoPath == <<>>

(* --------------------------- the file system --------------------------- *)

\* DownloadService._generate_filename / output_directory: one file per id
VideoPath(id) == <<"videos", id>>
\* extract_audio: audio_dir / (stem of the video path).wav
AudioPath(id) == <<"audio", id>>
Paths == {VideoPath(i) : i \in VideoIds} \cup {AudioPath(i) : i \in VideoIds}

\* what a file at a path holds; "absent" is no file
FileKinds == {"absent", "video", "html", "small", "empty", "partial", "wav"}

(* ---------------------------- record store ----------------------------- *)

\* VideoRecord(...) with the column defaults
VideoRecord(id, source) ==
    [id |-> id, source |-> source, stream_url |-> None,
     download_status |-> "pending", audio_status |-> "pending",
     transcription_status |-> "pending",
     download_path |-> NoPath, audio_path |-> NoPath]

\* indexes of the rows filter_by(id=video_id, source=source) selects
Matching(db, id, source) ==
    {i \in 1..Len(db) : db[i].id = id /\ db[i].source = source}

Min(S) == CHOOSE x \in S : \A y \in S : x <= y

\* the None a query without a match returns
NoRecord == [id |-> None]

\* DatabaseManager.get_video_record: .first() or None
get_video_record(db, id, source) ==
    IF Matching(db, id, source) = {} THEN NoRecord
    ELSE db[Min(Matching(db, id, source))]

\* DatabaseManager.video_exists
video_exists(db, id, source) == Cardinality(Matching(db, id, source)) > 0

\* the primary key of the videos table is the id column alone
PrimaryKeyTaken(db, id) == \E i \in 1..Len(db) : db[i].id = id

\* create_video_record with session.merge(record) for session.add(record):
\* the row of a registered id is replaced by the new record
create_video_record_merge(db, id, source) ==
    IF PrimaryKeyTaken(db, id)
    THEN [db |-> [i \in 1..Len(db) |->
                    IF db[i].id = id THEN VideoRecord(id, source) ELSE db[i]],
          raised |-> FALSE]
    ELSE [db |-> Append(db, VideoRecord(id, source)), raised |-> FALSE]

\* DatabaseManager.create_video_record: the insert raises IntegrityError
\* on a primary-key conflict and the session is rolled back
create_video_record(db, id, source) ==
    IF PrimaryKeyTaken(db, id)
    THEN [db |-> db, raised |-> TRUE]
    ELSE [db |-> Append(db, VideoRecord(id, source)), raised |-> FALSE]

\* the keyword arguments of update_video_status left at their default
NoUpdate ==
    [download_status |-> None, audio_status |-> None,
     transcription_status |-> None,
     download_path |-> NoPath, audio_path |-> NoPath]

\* the five "if x: record.x = x" lines
ApplyUpdate(r, u) ==
    [r EXCEPT
       !.download_status =
           IF u.download_status # None THEN u.download_status ELSE @,
       !.audio_status =
           IF u.audio_status # None THEN u.audio_status ELSE @,
       !.transcription_status =
           IF u.transcription_status # None THEN u.transcription_status ELSE @,
       !.download_path =
           IF u.download_path # NoPath THEN u.download_path ELSE @,
       !.audio_path =
           IF u.audio_path # NoPath THEN u.audio_path ELSE @]

\* update_video_status with a query on the id alone:
\* filter_by(id=video_id) for filter_by(id=video_id, source=source)
update_video_status_by_id(db, id, source, u) ==
    IF \A i \in 1..Len(db) : db[i].id # id THEN db
    ELSE [i \in 1..Len(db) |->
            IF db[i].id = id THEN ApplyUpdate(db[i], u) ELSE db[i]]

\* DatabaseManager.update_video_status
update_video_status(db, id, source, u) ==
    IF Matching(db, id, source) = {} THEN db
    ELSE [db EXCEPT ![Min(Matching(db, id, source))] = ApplyUpdate(@, u)]

\* DatabaseManager.update_stream_url
update_stream_url(db, id, source, url) ==
    IF Matching(db, id, source) = {} THEN db
    ELSE [db EXCEPT ![Min(Matching(db, id, source))].stream_url = url]

\* update_download_status(video_id, source, status, download_path) is called
\* by StateService.mark_video_processed and by fix_invalid_downloads.py, and
\* DatabaseManager does not define it. Where the store does carry it, this is
\* the behaviour its callers rely on: the status is written, and the path
\* when one is given.
update_download_status(db, id, source, status, path) ==
    update_video_status(db, id, source,
        [NoUpdate EXCEPT !.download_status = status, !.download_path = path])

\* add_transcript keyed by (video_id, provider): a later attempt replaces
\* the row of an earlier one
add_transcript_replace(ts, id, provider) ==
    IF \E k \in 1..Len(ts) : ts[k].video_id = id /\ ts[k].provider = provider
    THEN ts
    ELSE Append(ts, [video_id |-> id, provider |-> provider])

\* DatabaseManager.add_transcript: a new row with a fresh uuid
add_transcript(ts, id, provider) ==
    Append(ts, [video_id |-> id, provider |-> provider])

(* ----------------------------- downloader ------------------------------ *)

\* what one HTTP transfer attempt of a direct file delivers: a video, an
\* HTML page, a non-empty body under 1000 bytes, an empty body, an error
\* before the file is opened, an error after part of it was written
DirectPayloads == {"video", "html", "small", "empty", "neterr", "partial"}

\* what a yt-dlp run leaves behind
YtOutcomes == {"video", "html", "small", "empty", "raise", "nofile",
               "no_manifest"}

\* VideoDownloader._download_with_progress
download_with_progress(file, payload) ==
    CASE payload = "neterr"  -> [success |-> FALSE, file |-> file]
      [] payload = "partial" -> [success |-> FALSE, file |-> "partial"]
      [] payload = "html"    -> [success |-> FALSE, file |-> "absent"]
      [] payload = "small"   -> [success |-> FALSE, file |-> "absent"]
      [] payload = "empty"   -> [success |-> TRUE,  file |-> "empty"]
      [] payload = "video"   -> [success |-> TRUE,  file |-> "video"]

RECURSIVE DirectAttempts(_, _, _)
\* the retry loop of VideoDownloader.download
DirectAttempts(attempt, file, http) ==
    IF attempt > max_retries
    THEN [success |-> FALSE, file |-> file, attempts |-> max_retries,
          payload |-> http[max_retries]]
    ELSE LET r == download_with_progress(file, http[attempt])
         IN  IF r.success
             THEN [success |-> TRUE, file |-> r.file, attempts |-> attempt,
                   payload |-> http[attempt]]
             ELSE DirectAttempts(attempt + 1, r.file, http)

\* VideoDownloader._download_with_ytdlp
download_with_ytdlp(url, yt) ==
    CASE url = "player" /\ yt = "no_manifest" ->
            [success |-> FALSE, file |-> "absent", attempts |-> 0,
             payload |-> None]
      [] yt \in {"raise", "nofile", "no_manifest"} ->
            [success |-> FALSE, file |-> "absent", attempts |-> 1,
             payload |-> None]
      [] OTHER ->
            [success |-> TRUE, file |-> yt, attempts |-> 1, payload |-> yt]

\* the URL shapes VideoDownloader.download tells apart
use_ytdlp(url) == url \in {"manifest", "player"}

\* VideoDownloader.download
download(url, file, http, yt) ==
    IF file # "absent"
    THEN [success |-> TRUE, file |-> file, attempts |-> 0, payload |-> None]
    ELSE IF use_ytdlp(url)
         THEN download_with_ytdlp(url, yt)
         ELSE DirectAttempts(1, file, http)

\* DownloadService._resolve_stream_url: the house scraper builds the direct
\* file URL or gives up, the senate scraper always returns a manifest URL
ResolveOutcomes(source) ==
    IF source = "house" THEN {"direct", None} ELSE {"manifest"}

\* utils/audio_extractor.extract_audio: None when the video file is absent
\* or ffmpeg exits non-zero
ExtractOutcomes(file) ==
    IF file \in {"video", "partial"} THEN {TRUE, FALSE} ELSE {FALSE}

\* provider.transcribe(Path(record.audio_path)) raises on a missing file
TranscribeOutcomes(file) ==
    IF file = "wav" THEN {TRUE, FALSE} ELSE {FALSE}

(* -------------------------------- state -------------------------------- *)

VARIABLES
    videos,       \* the videos table, rows in insertion order
    transcripts,  \* the transcripts table, rows in insertion order
    disk,         \* what each path of the storage directory holds
    queue,        \* tasks the broker holds, how many of each
    workers,      \* what each Celery worker process is executing
    dispatched,   \* tasks handed to the broker so far
    sweep_log,    \* what the last run of requeue_failed_tasks that found
                  \* failed records logged
    has_update_download_status,
                  \* whether the deployed DatabaseManager carries the method
                  \* StateService.mark_video_processed calls
    call          \* one call of a component followed step by step on its
                  \* own (the downloader, the resolvers, discovery, the
                  \* store): its arguments, its position, its result

vars == <<videos, transcripts, disk, queue, workers, dispatched, sweep_log,
          has_update_download_status, call>>

Videos == VideoIds \X Sources
Tasks == {"download", "transcribe"} \X VideoIds \X Sources

\* a worker process between two tasks; a running task keeps its arguments,
\* its position and the locals it still reads
Idle == [pc |-> "idle", id |-> None, source |-> None, stream_url |-> None,
         success |-> FALSE, payload |-> None]

\* no call of the downloader is being followed
NoCall == [pc |-> "none"]

Init ==
    /\ videos = <<>>
    /\ transcripts = <<>>
    /\ disk = [p \in Paths |-> "absent"]
    /\ queue = [t \in Tasks |-> 0]
    /\ workers = [w \in Workers |-> Idle]
    /\ dispatched = 0
    /\ sweep_log = {}
    /\ has_update_download_status \in BOOLEAN
    /\ call = NoCall

\* the worker processes are interchangeable: the broker hands a task to the
\* first idle one
FirstIdle(w) ==
    /\ workers[w].pc = "idle"
    /\ \A x \in Workers : workers[x].pc = "idle" => ~(x < w)

\* task.apply_async / task.delay
Enqueue(q, kind, id, source) ==
    [q EXCEPT ![<<kind, id, source>>] = @ + 1]

(* ------------------------------ discovery ------------------------------ *)

\* mark_video_discovered as an upsert: a registered video is written again
\* from the scraped metadata, which carries no stage
mark_video_discovered_upsert(db, id, source) ==
    IF ~video_exists(db, id, source)
    THEN create_video_record(db, id, source)
    ELSE [db |-> [i \in 1..Len(db) |->
                    IF db[i].id = id /\ db[i].source = source
                    THEN VideoRecord(id, source) ELSE db[i]],
          raised |-> FALSE]

\* StateService.mark_video_discovered
mark_video_discovered(db, id, source) ==
    IF ~video_exists(db, id, source)
    THEN create_video_record(db, id, source)
    ELSE [db |-> db, raised |-> FALSE]

RECURSIVE DiscoverLoop(_, _, _)
\* the for loop of discover_videos_task: an exception of
\* mark_video_discovered ends the task before the dispatch
DiscoverLoop(db, q, found) ==
    IF found = <<>> THEN [db |-> db, queue |-> q]
    ELSE LET v == Head(found)
             m == mark_video_discovered(db, v[1], v[2])
         IN  IF m.raised THEN [db |-> m.db, queue |-> q]
             ELSE DiscoverLoop(m.db, Enqueue(q, "download", v[1], v[2]),
                               Tail(found))

\* the lists of videos a discovery run can return
Batches ==
    UNION {[1..n -> Videos] : n \in 1..MaxBatch}

QueueCount(q) ==
    LET RECURSIVE Sum(_)
        Sum(S) == IF S = {} THEN 0
                  ELSE LET t == CHOOSE x \in S : TRUE
                       IN  q[t] + Sum(S \ {t})
    IN  Sum(DOMAIN q)

\* discover_videos_task
discover_videos_task(found) ==
    /\ dispatched + Len(found) <= MaxDispatch
    /\ LET r == DiscoverLoop(videos, queue, found)
       IN  /\ videos' = r.db
           /\ queue' = r.queue
           /\ dispatched' = dispatched + (QueueCount(r.queue) - QueueCount(queue))
    /\ UNCHANGED <<transcripts, disk, workers, sweep_log, has_update_download_status, call>>

\* dashboard/app.py "Download All Videos": one download task per video of
\* the session's discovered list, which the dashboard registered before
dashboard_download_all(found) ==
    /\ dispatched + Len(found) <= MaxDispatch
    /\ \A i \in 1..Len(found) : video_exists(videos, found[i][1], found[i][2])
    /\ LET RECURSIVE Loop(_, _)
           Loop(q, l) == IF l = <<>> THEN q
                         ELSE Loop(Enqueue(q, "download", Head(l)[1], Head(l)[2]),
                                   Tail(l))
       IN  queue' = Loop(queue, found)
    /\ dispatched' = dispatched + Len(found)
    /\ UNCHANGED <<videos, transcripts, disk, workers,
                   sweep_log, has_update_download_status, call>>

(* --------------------------- download_video_task ------------------------ *)

\* StateService.mark_video_processed: self.db.update_download_status(...)
\* raises AttributeError when DatabaseManager has no such method
mark_video_processed(db, id, source, status, path) ==
    IF has_update_download_status
    THEN [db |-> update_download_status(db, id, source, status, path),
          raised |-> FALSE]
    ELSE [db |-> db, raised |-> TRUE]

\* tasks.py 92-122: a worker takes the task, reads the record, returns if
\* there is none, and writes download_status = in_progress
download_task_start(w, id, source) ==
    /\ FirstIdle(w)
    /\ queue[<<"download", id, source>>] > 0
    /\ queue' = [queue EXCEPT ![<<"download", id, source>>] = @ - 1]
    /\ LET record == get_video_record(videos, id, source)
       IN  IF record = NoRecord
           THEN UNCHANGED <<videos, workers>>
           ELSE /\ videos' = update_video_status(videos, id, source,
                        [NoUpdate EXCEPT !.download_status = "in_progress"])
                /\ workers' = [workers EXCEPT ![w] =
                        [Idle EXCEPT !.pc = "dl_check", !.id = id,
                                     !.source = source,
                                     !.stream_url = record.stream_url]]
    /\ UNCHANGED <<transcripts, disk, dispatched, sweep_log, has_update_download_status, call>>

\* StateService.is_video_processed
is_video_processed(db, id, source) ==
    /\ get_video_record(db, id, source) # NoRecord
    /\ get_video_record(db, id, source).download_status = "downloaded"

\* StateService.get_download_path
get_download_path(db, id, source) ==
    IF get_video_record(db, id, source) # NoRecord
    THEN get_video_record(db, id, source).download_path
    ELSE NoPath

\* DownloadService.download_video 47-59: the already-downloaded shortcut,
\* else the in_progress mark, which is outside the try block
download_service_check(w) ==
    LET id == workers[w].id
        source == workers[w].source
        existing_path == get_download_path(videos, id, source)
        m == mark_video_processed(videos, id, source, "in_progress", NoPath)
    IN  /\ workers[w].pc = "dl_check"
        /\ IF /\ is_video_processed(videos, id, source)
              /\ existing_path # NoPath
              /\ disk[existing_path] # "absent"
           THEN /\ workers' = [workers EXCEPT ![w].pc = "dl_mark",
                                              ![w].stream_url = None,
                                              ![w].success = TRUE]
                /\ UNCHANGED videos
           ELSE IF m.raised
                THEN /\ workers' = [workers EXCEPT ![w] = Idle]
                     /\ UNCHANGED videos
                ELSE /\ workers' = [workers EXCEPT ![w].pc = "dl_transfer"]
                     /\ videos' = m.db
        /\ UNCHANGED <<transcripts, disk, queue, dispatched,
                       sweep_log, has_update_download_status, call>>

\* the URL shapes DownloadService.download_video can hand to the downloader
UrlShapes == {"direct", "manifest", "player"}

\* every result VideoDownloader.download can return for a URL shape and a
\* destination, over all the network can deliver
DownloadResults ==
    [url \in UrlShapes, file \in FileKinds |->
        {download(url, file, http, yt) :
            http \in [1..max_retries -> DirectPayloads],
            yt \in IF url = "player" THEN YtOutcomes
                   ELSE YtOutcomes \ {"no_manifest"}}]

\* DownloadService.download_video 63-132: choose the URL, transfer, mark
download_service_transfer(w) ==
    LET id == workers[w].id
        source == workers[w].source
        cached == workers[w].stream_url
    IN  /\ workers[w].pc = "dl_transfer"
        /\ \E resolved \in IF cached # None THEN {cached}
                           ELSE ResolveOutcomes(source) :
            LET url == IF resolved # None THEN resolved ELSE "player"
                db1 == IF cached = None /\ resolved # None
                       THEN update_stream_url(videos, id, source, resolved)
                       ELSE videos
            IN  \E r \in DownloadResults[url, disk[VideoPath(id)]] :
                LET m == IF r.success
                         THEN mark_video_processed(db1, id, source,
                                                   "downloaded", VideoPath(id))
                         ELSE mark_video_processed(db1, id, source,
                                                   "failed", NoPath)
                IN  /\ disk' = [disk EXCEPT ![VideoPath(id)] = r.file]
                    /\ IF m.raised
                       THEN /\ videos' = db1
                            /\ workers' = [workers EXCEPT ![w] = Idle]
                       ELSE /\ videos' = m.db
                            /\ workers' = [workers EXCEPT
                                  ![w].pc = "dl_mark",
                                  ![w].stream_url = None,
                                  ![w].success = r.success,
                                  ![w].payload = r.payload]
        /\ UNCHANGED <<transcripts, queue, dispatched,
                       sweep_log, has_update_download_status, call>>

\* tasks.py 125-127 and 141-143
download_task_mark(w) ==
    LET id == workers[w].id
        source == workers[w].source
    IN  /\ workers[w].pc = "dl_mark"
        /\ IF workers[w].success
           THEN /\ videos' = update_video_status(videos, id, source,
                        [NoUpdate EXCEPT !.download_status = "downloaded",
                                         !.download_path = VideoPath(id)])
                /\ workers' = [workers EXCEPT ![w].pc = "dl_extracting",
                                              ![w].success = FALSE,
                                              ![w].payload = None]
           ELSE /\ videos' = update_video_status(videos, id, source,
                        [NoUpdate EXCEPT !.download_status = "failed"])
                /\ workers' = [workers EXCEPT ![w] = Idle]
        /\ UNCHANGED <<transcripts, disk, queue, dispatched,
                       sweep_log, has_update_download_status, call>>

\* tasks.py 130
download_task_extracting(w) ==
    /\ workers[w].pc = "dl_extracting"
    /\ videos' = update_video_status(videos, workers[w].id, workers[w].source,
                    [NoUpdate EXCEPT !.audio_status = "extracting"])
    /\ workers' = [workers EXCEPT ![w].pc = "dl_extract"]
    /\ UNCHANGED <<transcripts, disk, queue, dispatched,
                   sweep_log, has_update_download_status, call>>

\* tasks.py 131-140 with a failure branch that gives up the download too
download_task_extract_fails_download(w) ==
    LET id == workers[w].id
        source == workers[w].source
    IN  /\ workers[w].pc = "dl_extract"
        /\ \E ok \in ExtractOutcomes(disk[VideoPath(id)]) :
            IF ok
            THEN /\ dispatched < MaxDispatch
                 /\ disk' = [disk EXCEPT ![AudioPath(id)] = "wav"]
                 /\ videos' = update_video_status(videos, id, source,
                        [NoUpdate EXCEPT !.audio_status = "extracted",
                                         !.audio_path = AudioPath(id)])
                 /\ queue' = Enqueue(queue, "transcribe", id, source)
                 /\ dispatched' = dispatched + 1
            ELSE /\ videos' = update_video_status(videos, id, source,
                        [NoUpdate EXCEPT !.audio_status = "failed",
                                         !.download_status = "failed"])
                 /\ UNCHANGED <<disk, queue, dispatched>>
        /\ workers' = [workers EXCEPT ![w] = Idle]
        /\ UNCHANGED <<transcripts, sweep_log, has_update_download_status, call>>

\* tasks.py 131-140
download_task_extract(w) ==
    LET id == workers[w].id
        source == workers[w].source
    IN  /\ workers[w].pc = "dl_extract"
        /\ \E ok \in ExtractOutcomes(disk[VideoPath(id)]) :
            IF ok
            THEN /\ dispatched < MaxDispatch
                 /\ disk' = [disk EXCEPT ![AudioPath(id)] = "wav"]
                 /\ videos' = update_video_status(videos, id, source,
                        [NoUpdate EXCEPT !.audio_status = "extracted",
                                         !.audio_path = AudioPath(id)])
                 /\ queue' = Enqueue(queue, "transcribe", id, source)
                 /\ dispatched' = dispatched + 1
            ELSE /\ videos' = update_video_status(videos, id, source,
                        [NoUpdate EXCEPT !.audio_status = "failed"])
                 /\ UNCHANGED <<disk, queue, dispatched>>
        /\ workers' = [workers EXCEPT ![w] = Idle]
        /\ UNCHANGED <<transcripts, sweep_log, has_update_download_status, call>>

(* -------------------------- transcribe_audio_task ----------------------- *)

\* tasks.py 146-158: return when there is no record or no audio_path, else
\* write transcription_status = in_progress
transcribe_task_start(w, id, source) ==
    /\ FirstIdle(w)
    /\ queue[<<"transcribe", id, source>>] > 0
    /\ queue' = [queue EXCEPT ![<<"transcribe", id, source>>] = @ - 1]
    /\ LET record == get_video_record(videos, id, source)
       IN  IF record = NoRecord \/ record.audio_path = NoPath
           THEN UNCHANGED <<videos, workers>>
           ELSE /\ videos' = update_video_status(videos, id, source,
                        [NoUpdate EXCEPT !.transcription_status = "in_progress"])
                /\ workers' = [workers EXCEPT ![w] =
                        [Idle EXCEPT !.pc = "tr_run", !.id = id,
                                     !.source = source]]
    /\ UNCHANGED <<transcripts, disk, dispatched, sweep_log, has_update_download_status, call>>

\* tasks.py 160-196 with the stage marked completed before the transcript
\* row is added
transcribe_task_run_mark_first(w) ==
    LET id == workers[w].id
        source == workers[w].source
    IN  /\ workers[w].pc = "tr_run"
        /\ \E ok \in TranscribeOutcomes(disk[AudioPath(id)]) :
            IF ok
            THEN /\ Len(transcripts) < MaxTranscripts
                 /\ videos' = update_video_status(videos, id, source,
                        [NoUpdate EXCEPT !.transcription_status = "completed"])
                 /\ UNCHANGED transcripts
                 /\ workers' = [workers EXCEPT ![w].pc = "tr_mark"]
            ELSE /\ videos' = update_video_status(videos, id, source,
                        [NoUpdate EXCEPT !.transcription_status = "failed"])
                 /\ workers' = [workers EXCEPT ![w] = Idle]
                 /\ UNCHANGED transcripts
        /\ UNCHANGED <<disk, queue, dispatched, sweep_log,
                       has_update_download_status, call>>

\* tasks.py 160-196 with an except branch that gives up the audio too
transcribe_task_run_fails_audio(w) ==
    LET id == workers[w].id
        source == workers[w].source
    IN  /\ workers[w].pc = "tr_run"
        /\ \E ok \in TranscribeOutcomes(disk[AudioPath(id)]) :
            IF ok
            THEN /\ Len(transcripts) < MaxTranscripts
                 /\ transcripts' = add_transcript(transcripts, id, "local")
                 /\ UNCHANGED videos
                 /\ workers' = [workers EXCEPT ![w].pc = "tr_mark"]
            ELSE /\ videos' = update_video_status(videos, id, source,
                        [NoUpdate EXCEPT !.transcription_status = "failed",
                                         !.audio_status = "failed"])
                 /\ workers' = [workers EXCEPT ![w] = Idle]
                 /\ UNCHANGED transcripts
        /\ UNCHANGED <<disk, queue, dispatched, sweep_log,
                       has_update_download_status, call>>

\* tasks.py 160-188 and 194-196: the provider runs on record.audio_path; on
\* success a transcript row is added, on any exception the stage is marked
\* failed
transcribe_task_run(w) ==
    LET id == workers[w].id
        source == workers[w].source
    IN  /\ workers[w].pc = "tr_run"
        /\ \E ok \in TranscribeOutcomes(disk[AudioPath(id)]) :
            IF ok
            THEN /\ Len(transcripts) < MaxTranscripts
                 /\ transcripts' = add_transcript(transcripts, id, "local")
                 /\ UNCHANGED videos
                 /\ workers' = [workers EXCEPT ![w].pc = "tr_mark"]
            ELSE /\ videos' = update_video_status(videos, id, source,
                        [NoUpdate EXCEPT !.transcription_status = "failed"])
                 /\ workers' = [workers EXCEPT ![w] = Idle]
                 /\ UNCHANGED transcripts
        /\ UNCHANGED <<disk, queue, dispatched, sweep_log,
                       has_update_download_status, call>>

\* tasks.py 190-191: the stage is marked completed
transcribe_task_mark(w) ==
    /\ workers[w].pc = "tr_mark"
    /\ videos' = update_video_status(videos, workers[w].id, workers[w].source,
                    [NoUpdate EXCEPT !.transcription_status = "completed"])
    /\ workers' = [workers EXCEPT ![w] = Idle]
    /\ UNCHANGED <<transcripts, disk, queue, dispatched, sweep_log,
                   has_update_download_status, call>>

(* --------------------------- requeue_failed_tasks ----------------------- *)

\* session.query(VideoRecord).filter(<column> == "failed").all()
FailedRows(db, column) ==
    SelectSeq(db, LAMBDA r : r[column] = "failed")

\* os.path.exists(record.audio_path)
AudioExists(record, d) ==
    record.audio_path # NoPath /\ d[record.audio_path] # "absent"

RECURSIVE RequeueTranscripts_no_exists_check(_, _, _, _, _)
\* the first loop without the os.path.exists test: every failed
\* transcription restarts from the download
RequeueTranscripts_no_exists_check(db, q, d, log, rows) ==
    IF rows = <<>> THEN [db |-> db, queue |-> q, log |-> log]
    ELSE LET record == Head(rows)
         IN  RequeueTranscripts_no_exists_check(
                 update_video_status(db, record.id, record.source,
                     [NoUpdate EXCEPT !.download_status = "pending",
                                      !.transcription_status = "pending"]),
                 Enqueue(q, "download", record.id, record.source),
                 d,
                 log \cup {IF AudioExists(record, d)
                           THEN <<"Re-queueing transcription", record.id,
                                  record.source>>
                           ELSE <<"Restarting download", record.id,
                                  record.source>>},
                 Tail(rows))

RECURSIVE RequeueTranscripts_partial_reset(_, _, _, _, _)
\* the first loop with a restart that resets download_status only
RequeueTranscripts_partial_reset(db, q, d, log, rows) ==
    IF rows = <<>> THEN [db |-> db, queue |-> q, log |-> log]
    ELSE LET record == Head(rows)
         IN  IF AudioExists(record, d)
             THEN RequeueTranscripts_partial_reset(db,
                      Enqueue(q, "transcribe", record.id, record.source),
                      d,
                      log \cup {<<"Re-queueing transcription", record.id,
                                  record.source>>},
                      Tail(rows))
             ELSE RequeueTranscripts_partial_reset(
                      update_video_status(db, record.id, record.source,
                          [NoUpdate EXCEPT !.download_status = "pending"]),
                      Enqueue(q, "download", record.id, record.source),
                      d,
                      log \cup {<<"Restarting download", record.id,
                                  record.source>>},
                      Tail(rows))

RECURSIVE RequeueTranscripts(_, _, _, _, _)
\* tasks.py 211-224, the loop over the failed transcriptions
RequeueTranscripts(db, q, d, log, rows) ==
    IF rows = <<>> THEN [db |-> db, queue |-> q, log |-> log]
    ELSE LET record == Head(rows)
         IN  IF AudioExists(record, d)
             THEN RequeueTranscripts(db,
                      Enqueue(q, "transcribe", record.id, record.source),
                      d,
                      log \cup {<<"Re-queueing transcription", record.id,
                                  record.source>>},
                      Tail(rows))
             ELSE RequeueTranscripts(
                      update_video_status(db, record.id, record.source,
                          [NoUpdate EXCEPT !.download_status = "pending",
                                           !.transcription_status = "pending"]),
                      Enqueue(q, "download", record.id, record.source),
                      d,
                      log \cup {<<"Restarting download", record.id,
                                  record.source>>},
                      Tail(rows))

RECURSIVE RequeueDownloads_no_reset(_, _, _, _)
\* the second loop dispatching the download without the reset to pending
RequeueDownloads_no_reset(db, q, log, rows) ==
    IF rows = <<>> THEN [db |-> db, queue |-> q, log |-> log]
    ELSE LET record == Head(rows)
         IN  RequeueDownloads_no_reset(
                 db,
                 Enqueue(q, "download", record.id, record.source),
                 log \cup {<<"Retrying download", record.id, record.source>>},
                 Tail(rows))

RECURSIVE RequeueDownloads(_, _, _, _)
\* tasks.py 226-232, the loop over the failed downloads
RequeueDownloads(db, q, log, rows) ==
    IF rows = <<>> THEN [db |-> db, queue |-> q, log |-> log]
    ELSE LET record == Head(rows)
         IN  RequeueDownloads(
                 update_video_status(db, record.id, record.source,
                     [NoUpdate EXCEPT !.download_status = "pending"]),
                 Enqueue(q, "download", record.id, record.source),
                 log \cup {<<"Retrying download", record.id, record.source>>},
                 Tail(rows))

\* requeue_failed_tasks: the second query runs after the first loop's commits
RequeueResult(db, q, d) ==
    LET first == RequeueTranscripts(db, q, d, {},
                                    FailedRows(db, "transcription_status"))
    IN  RequeueDownloads(first.db, first.queue, first.log,
                         FailedRows(first.db, "download_status"))

\* tasks.py 199-235. A sweep that finds no failed record writes nothing and
\* dispatches nothing; it is left to stuttering, so sweep_log keeps the lines
\* of the last sweep that acted.
requeue_failed_tasks ==
    LET r == RequeueResult(videos, queue, disk)
        n == QueueCount(r.queue) - QueueCount(queue)
    IN  /\ n > 0
        /\ dispatched + n <= MaxDispatch
        /\ videos' = r.db
        /\ queue' = r.queue
        /\ sweep_log' = r.log
        /\ dispatched' = dispatched + n
        /\ UNCHANGED <<transcripts, disk, workers,
                       has_update_download_status, call>>

(* ------------------------------ environment ----------------------------- *)

\* a file of the storage directory is removed from outside the pipeline
\* (the sweeper and the services test each path with exists() for this)
artifact_lost(p) ==
    /\ disk[p] # "absent"
    /\ disk' = [disk EXCEPT ![p] = "absent"]
    /\ UNCHANGED <<videos, transcripts, queue, workers, dispatched,
                   sweep_log, has_update_download_status, call>>

(* ----------------------------- specification ---------------------------- *)

Next ==
    \/ \E found \in Batches : discover_videos_task(found)
    \/ \E found \in Batches : dashboard_download_all(found)
    \/ \E w \in Workers, v \in Videos : download_task_start(w, v[1], v[2])
    \/ \E w \in Workers : download_service_check(w)
    \/ \E w \in Workers : download_service_transfer(w)
    \/ \E w \in Workers : download_task_mark(w)
    \/ \E w \in Workers : download_task_extracting(w)
    \/ \E w \in Workers : download_task_extract(w)
    \/ \E w \in Workers, v \in Videos : transcribe_task_start(w, v[1], v[2])
    \/ \E w \in Workers : transcribe_task_run(w)
    \/ \E w \in Workers : transcribe_task_mark(w)
    \/ requeue_failed_tasks
    \/ \E p \in Paths : artifact_lost(p)

Spec == Init /\ [][Next]_vars

\* what a worker process does once it holds a task, and its taking one
WorkerStep(w) ==
    \/ \E v \in Videos : download_task_start(w, v[1], v[2])
    \/ \E v \in Videos : transcribe_task_start(w, v[1], v[2])
    \/ download_service_check(w)
    \/ download_service_transfer(w)
    \/ download_task_mark(w)
    \/ download_task_extracting(w)
    \/ download_task_extract(w)
    \/ transcribe_task_run(w)
    \/ transcribe_task_mark(w)

\* the pipeline with its scheduling: Celery runs every worker process on,
\* and the sweep is run again and again
LiveSpec ==
    /\ Init
    /\ [][Next]_vars
    /\ \A w \in Workers : WF_vars(WorkerStep(w))
    /\ WF_vars(requeue_failed_tasks)

(* ------------------- VideoDownloader.download, by steps ---------------- *)

\* calls of download for the same output_path in one behaviour
MaxCalls == 2

\* the variables of the pipeline, which a call followed on its own leaves alone
pipeline_vars == <<videos, transcripts, queue, workers, dispatched,
                   sweep_log, has_update_download_status>>

\* output_path of the call that is followed
Destination == VideoPath("v1")

\* the calls that are followed: a URL of each shape, what the network
\* delivers on each attempt of a direct transfer or what yt-dlp leaves, and
\* what the destination holds when the call is made
Calls ==
    {[pc |-> "start", url |-> u, http |-> h, yt |-> y, existing |-> f,
      attempt |-> 0, tried |-> <<>>, success |-> FALSE, payload |-> None,
      calls |-> 1] :
        u \in {"direct"}, h \in [1..max_retries -> DirectPayloads],
        y \in {"video"}, f \in {"absent", "video", "partial"}}
    \cup
    {[pc |-> "start", url |-> u, http |-> h, yt |-> y, existing |-> f,
      attempt |-> 0, tried |-> <<>>, success |-> FALSE, payload |-> None,
      calls |-> 1] :
        u \in {"manifest", "player"}, h \in {[k \in 1..max_retries |-> "video"]},
        y \in YtOutcomes, f \in {"absent", "video", "partial"}}

DownloaderInit ==
    /\ videos = <<>>
    /\ transcripts = <<>>
    /\ queue = [t \in Tasks |-> 0]
    /\ workers = [w \in Workers |-> Idle]
    /\ dispatched = 0
    /\ sweep_log = {}
    /\ has_update_download_status = FALSE
    /\ call \in Calls
    /\ disk = [p \in Paths |-> IF p = Destination THEN call.existing
                               ELSE "absent"]

\* video_downloader.py 61-98: the existing file is returned as a success,
\* else the URL decides between yt-dlp and the retry loop
download_start ==
    /\ call.pc = "start"
    /\ IF disk[Destination] # "absent"
       THEN call' = [call EXCEPT !.pc = "done", !.success = TRUE]
       ELSE IF use_ytdlp(call.url)
            THEN call' = [call EXCEPT !.pc = "ytdlp"]
            ELSE call' = [call EXCEPT !.pc = "attempt", !.attempt = 1]
    /\ UNCHANGED disk
    /\ UNCHANGED pipeline_vars

\* video_downloader.py 97-98: return self._download_with_ytdlp(...)
download_ytdlp ==
    /\ call.pc = "ytdlp"
    /\ LET r == download_with_ytdlp(call.url, call.yt)
       IN  /\ disk' = [disk EXCEPT ![Destination] = r.file]
           /\ call' = [call EXCEPT !.pc = "done", !.success = r.success,
                                   !.payload = r.payload]
    /\ UNCHANGED pipeline_vars

\* the loop of video_downloader.py 102-113 with one attempt fewer:
\* range(1, max_retries) for range(1, max_retries + 1)
download_attempt_one_short ==
    /\ call.pc = "attempt"
    /\ LET payload == call.http[call.attempt]
           r == download_with_progress(disk[Destination], payload)
       IN  /\ disk' = [disk EXCEPT ![Destination] = r.file]
           /\ call' = [call EXCEPT
                 !.tried = Append(@, payload),
                 !.payload = payload,
                 !.success = r.success,
                 !.attempt = IF ~r.success /\ call.attempt < max_retries - 1
                             THEN @ + 1 ELSE @,
                 !.pc = IF ~r.success /\ call.attempt < max_retries - 1
                        THEN "attempt" ELSE "done"]
    /\ UNCHANGED pipeline_vars

\* video_downloader.py 102-120: one pass of the for loop; a successful
\* result is returned, any other result goes to the next attempt, and the
\* failure is returned after the last one
download_attempt ==
    /\ call.pc = "attempt"
    /\ LET payload == call.http[call.attempt]
           r == download_with_progress(disk[Destination], payload)
       IN  /\ disk' = [disk EXCEPT ![Destination] = r.file]
           /\ call' = [call EXCEPT
                 !.tried = Append(@, payload),
                 !.payload = payload,
                 !.success = r.success,
                 !.attempt = IF ~r.success /\ call.attempt < max_retries
                             THEN @ + 1 ELSE @,
                 !.pc = IF ~r.success /\ call.attempt < max_retries
                        THEN "attempt" ELSE "done"]
    /\ UNCHANGED pipeline_vars

\* tasks.py 226-232 with 91-103: the sweep sends the record of a failed
\* download to download_video_task again, which calls download with the
\* same URL and the same output_path; the call finds the destination as the
\* failed call left it
download_again ==
    /\ call.pc = "done"
    /\ ~call.success
    /\ call.calls < MaxCalls
    /\ call' = [call EXCEPT !.pc = "start", !.calls = @ + 1,
                            !.existing = disk[Destination],
                            !.attempt = 0, !.tried = <<>>,
                            !.payload = None]
    /\ UNCHANGED disk
    /\ UNCHANGED pipeline_vars

DownloaderNext ==
    \/ download_start
    \/ download_ytdlp
    \/ download_attempt
    \/ download_again

\* every step of the call is code of one thread that runs on
DownloaderSpec ==
    DownloaderInit /\ [][DownloaderNext]_vars /\ WF_vars(DownloaderNext)

\* the call followed by steps returns what download computes in one piece
DownloadAgrees ==
    call.pc = "done"
        => LET r == download(call.url, call.existing, call.http, call.yt)
           IN  /\ r.success = call.success
               /\ r.file = disk[Destination]
               /\ call.tried # <<>> => r.attempts = Len(call.tried)

(* ----------------------- the record store, by calls -------------------- *)

\* calls of the store followed in one behaviour
MaxOps == 3

\* the variables a call of the store leaves alone
store_vars == <<transcripts, disk, queue, workers, dispatched, sweep_log,
                has_update_download_status>>

\* the video ids the store is called with
StoreIds == {"v1", "v2"}

\* keyword arguments the tasks call update_video_status with: tasks.py 122,
\* 127, 136, 196 and 218-222
UpdatesUsed ==
    {[NoUpdate EXCEPT !.download_status = "in_progress"],
     [NoUpdate EXCEPT !.download_status = "downloaded",
                      !.download_path = <<"videos", "v1">>],
     [NoUpdate EXCEPT !.audio_status = "extracted",
                      !.audio_path = <<"audio", "v1">>],
     [NoUpdate EXCEPT !.transcription_status = "failed"],
     [NoUpdate EXCEPT !.download_status = "pending",
                      !.transcription_status = "pending"]}

\* no call has been made yet
NoStoreCall == [pc |-> "store", op |-> "none", n |-> 0]

StoreInit ==
    /\ videos = <<>>
    /\ transcripts = <<>>
    /\ disk = [p \in Paths |-> "absent"]
    /\ queue = [t \in Tasks |-> 0]
    /\ workers = [w \in Workers |-> Idle]
    /\ dispatched = 0
    /\ sweep_log = {}
    /\ has_update_download_status = FALSE
    /\ call = NoStoreCall

\* a call of DatabaseManager.create_video_record, with the store it found
\* and whether it raised
store_create(id, source) ==
    /\ call.n < MaxOps
    /\ LET r == create_video_record(videos, id, source)
       IN  /\ videos' = r.db
           /\ call' = [pc |-> "store", op |-> "create", n |-> call.n + 1,
                       id |-> id, source |-> source, u |-> NoUpdate,
                       before |-> videos, raised |-> r.raised]
    /\ UNCHANGED store_vars

\* a call of DatabaseManager.update_video_status, with the store it found
store_update(id, source, u) ==
    /\ call.n < MaxOps
    /\ videos' = update_video_status(videos, id, source, u)
    /\ call' = [pc |-> "store", op |-> "update", n |-> call.n + 1,
                id |-> id, source |-> source, u |-> u,
                before |-> videos, raised |-> FALSE]
    /\ UNCHANGED store_vars

StoreNext ==
    \/ \E id \in StoreIds, source \in Sources : store_create(id, source)
    \/ \E id \in StoreIds, source \in Sources, u \in UpdatesUsed :
          store_update(id, source, u)

StoreSpec == StoreInit /\ [][StoreNext]_vars

(* -------------------- stream URL resolution, by steps ------------------ *)

\* videos one run of a scraper lists
MaxFound == 2

\* what the HEAD request on the constructed house URL answers: 200 with a
\* video content type, 200 with another type and a positive length, 200 with
\* neither, 200 with a Content-Length that is no number, a 3xx status, any
\* other status, a RequestException
HeadOutcomes == {"video", "length", "nothing", "garbled", "redirect", "404",
                 "error"}

\* what the HEAD request on the redirect target answers
RedirectOutcomes == {"video", "other", "404", "error"}

\* what the POST to the Castus upload/get API answers: 200 with a URL, 200
\* without one, another status, an exception
ApiOutcomes == {"url", "no_data", "status", "error"}

\* who runs DiscoveryService.discover_videos: discover_videos_task, which
\* does not pass resolve_streams; the dashboard, which passes False; a
\* caller that asks for eager resolution with resolve_streams=True
Callers == {"task", "dashboard", "eager"}

\* the value of the parameter resolve_streams, whose default is True
resolve_streams(caller) == caller # "dashboard"

\* a call that is followed, before its first step
Followed(kind, source) ==
    [pc |-> "start", kind |-> kind, source |-> source, caller |-> None,
     found |-> 0, param |-> TRUE, head |-> None, redirect |-> None,
     api |-> None, steps |-> <<>>, result |-> None,
     resolver_calls |-> 0, api_requests |-> 0]

\* the calls of resolve_stream_url that are followed, with what the video
\* URL holds and what the network answers
Resolutions ==
    {[Followed("resolve", "house") EXCEPT
         !.param = p, !.head = h, !.redirect = r] :
        p \in BOOLEAN, h \in HeadOutcomes, r \in RedirectOutcomes}
    \cup
    {[Followed("resolve", "senate") EXCEPT !.api = a] : a \in ApiOutcomes}

\* the calls of discover_videos that are followed
Discoveries ==
    {[Followed("discover", s) EXCEPT !.caller = c, !.found = n] :
        s \in Sources, c \in Callers, n \in 0..MaxFound}

ResolverInit ==
    /\ videos = <<>>
    /\ transcripts = <<>>
    /\ disk = [p \in Paths |-> "absent"]
    /\ queue = [t \in Tasks |-> 0]
    /\ workers = [w \in Workers |-> Idle]
    /\ dispatched = 0
    /\ sweep_log = {}
    /\ has_update_download_status = FALSE
    /\ call \in Resolutions \cup Discoveries

\* house_scraper.py 224-238 and senate_scraper.py 264-266: the house scraper
\* returns None without a video parameter in the player URL and constructs
\* the direct file URL otherwise; the senate scraper goes to the API
resolve_start ==
    /\ call.kind = "resolve"
    /\ call.pc = "start"
    /\ call' = IF call.source = "house"
               THEN IF call.param
                    THEN [call EXCEPT !.pc = "probe",
                                      !.steps = Append(@, "deterministic")]
                    ELSE [call EXCEPT !.pc = "done", !.result = None]
               ELSE [call EXCEPT !.pc = "api"]
    /\ UNCHANGED <<disk, pipeline_vars>>

\* house_scraper.py 240-285: the HEAD request on the constructed URL. A
\* verified URL is returned; after a failed verification the constructed URL
\* is returned all the same (279-281); int() of a Content-Length that is no
\* number raises ValueError, which the outer handler turns into None
house_probe ==
    /\ call.pc = "probe"
    /\ call' =
         CASE call.head \in {"video", "length"} ->
                [call EXCEPT !.pc = "done", !.result = "direct_url"]
           [] call.head = "garbled" ->
                [call EXCEPT !.pc = "done", !.result = None]
           [] call.head = "redirect" ->
                [call EXCEPT !.pc = "redirect"]
           [] OTHER ->
                [call EXCEPT !.pc = "done", !.result = "direct_url"]
    /\ UNCHANGED <<disk, pipeline_vars>>

\* house_scraper.py 263-273 and 279-281: the HEAD request on the redirect
\* target
house_redirect ==
    /\ call.pc = "redirect"
    /\ call' = IF call.redirect = "video"
               THEN [call EXCEPT !.pc = "done", !.result = "redirect_url"]
               ELSE [call EXCEPT !.pc = "done", !.result = "direct_url"]
    /\ UNCHANGED <<disk, pipeline_vars>>

\* senate_scraper.py 272-294: the request to the API comes first
senate_api ==
    /\ call.pc = "api"
    /\ call' = IF call.api = "url"
               THEN [call EXCEPT !.pc = "done", !.result = "api_url",
                                 !.steps = Append(@, "api"),
                                 !.api_requests = @ + 1]
               ELSE [call EXCEPT !.pc = "pattern",
                                 !.steps = Append(@, "api"),
                                 !.api_requests = @ + 1]
    /\ UNCHANGED <<disk, pipeline_vars>>

\* senate_scraper.py 296-298: the URL built from the pattern, not probed
senate_pattern ==
    /\ call.pc = "pattern"
    /\ call' = [call EXCEPT !.pc = "done", !.result = "pattern_url",
                            !.steps = Append(@, "deterministic")]
    /\ UNCHANGED <<disk, pipeline_vars>>

\* discovery_service.py 72-87 and 102-117: the scraper lists the videos;
\* SenateScraper._parse_video_data calls _construct_cloudfront_url, and so
\* the API, for each video it returns (senate_scraper.py 235-236)
discover_scrape ==
    /\ call.kind = "discover"
    /\ call.pc = "start"
    /\ call' = [call EXCEPT
          !.pc = IF resolve_streams(call.caller) THEN "eager" ELSE "done",
          !.api_requests = IF call.source = "senate" THEN call.found ELSE 0]
    /\ UNCHANGED <<disk, pipeline_vars>>

\* discovery_service.py 89-94 and 119-124: resolve_stream_url for each video
discover_resolve ==
    /\ call.pc = "eager"
    /\ call' = [call EXCEPT
          !.pc = "done",
          !.resolver_calls = call.found,
          !.api_requests = IF call.source = "senate" THEN @ + call.found
                           ELSE @]
    /\ UNCHANGED <<disk, pipeline_vars>>

ResolverNext ==
    \/ resolve_start
    \/ house_probe
    \/ house_redirect
    \/ senate_api
    \/ senate_pattern
    \/ discover_scrape
    \/ discover_resolve

ResolverSpec == ResolverInit /\ [][ResolverNext]_vars

\* the URL shape of what resolve_stream_url returns: the senate URLs are
\* HLS playlists, the house URLs files
ResultShape(result) ==
    CASE result \in {"direct_url", "redirect_url"} -> "direct"
      [] result \in {"api_url", "pattern_url"} -> "manifest"
      [] OTHER -> None

\* the resolver followed by steps returns what the download service is
\* modelled to get from it
ResolveAgrees ==
    (call.pc = "done" /\ call.kind = "resolve")
        => ResultShape(call.result) \in ResolveOutcomes(call.source)

(* --------------- transcribe_audio_task, invoked on its own ------------- *)

\* invocations of the task in one behaviour
MaxInvocations == 2

\* a record whose audio has been extracted
Extracted(id, source) ==
    [VideoRecord(id, source) EXCEPT
        !.download_status = "downloaded", !.download_path = VideoPath(id),
        !.audio_status = "extracted", !.audio_path = AudioPath(id)]

\* what the store can hold when the task is invoked: nothing, a record that
\* discovery has just registered, a record whose audio is extracted
InvokeStores ==
    {<<>>}
    \cup {<<VideoRecord("v1", s)>> : s \in Sources}
    \cup {<<Extracted("v1", s)>> : s \in Sources}

InvokeInit ==
    /\ videos \in InvokeStores
    /\ transcripts = <<>>
    /\ disk = [p \in Paths |->
                 IF videos # <<>> /\ videos[1].audio_path # NoPath
                 THEN IF p = VideoPath("v1") THEN "video" ELSE "wav"
                 ELSE "absent"]
    /\ queue = [t \in Tasks |-> 0]
    /\ workers = [w \in Workers |-> Idle]
    /\ dispatched = 0
    /\ sweep_log = {}
    /\ has_update_download_status \in BOOLEAN
    /\ (videos # <<>> /\ videos[1].audio_path # NoPath)
          => has_update_download_status
    /\ call = NoCall

\* transcribe_audio_task.delay(video_id, source): the task is registered
\* with Celery under its name and takes any two strings
transcribe_invoked(id, source) ==
    /\ dispatched < MaxInvocations
    /\ queue' = Enqueue(queue, "transcribe", id, source)
    /\ dispatched' = dispatched + 1
    /\ UNCHANGED <<videos, transcripts, disk, workers, sweep_log,
                   has_update_download_status, call>>

InvokeNext ==
    \/ \E v \in Videos : transcribe_invoked(v[1], v[2])
    \/ \E w \in Workers, v \in Videos : transcribe_task_start(w, v[1], v[2])
    \/ \E w \in Workers : transcribe_task_run(w)
    \/ \E w \in Workers : transcribe_task_mark(w)
    \/ \E p \in Paths : artifact_lost(p)

InvokeSpec == InvokeInit /\ [][InvokeNext]_vars

(* ------------- DiscoveryService.discover_videos, source by source ------- *)

\* where a source's part of the call can fail: nowhere, in the scraper's
\* discover_videos, in its resolve_stream_url
FailurePoints == {"none", "scrape", "resolve"}

\* discovery_service.py 73, 103: the source after this one, in code order
NextSource(s) == IF s = "house" THEN "senate" ELSE "done"

\* the videos a source's scraper returns, in order
FoundFrom(s, n) == [k \in 1..n |-> <<s, k>>]

\* the calls that are followed: the source filter, resolve_streams, what
\* each archive holds and where each source's part fails
DiscoverCalls ==
    {[kind |-> "discover_all", pc |-> "query", at |-> "house",
      source |-> f, resolve_streams |-> rs, found |-> n, fails |-> x,
      all_videos |-> <<>>, raised |-> FALSE] :
        f \in Sources \cup {None}, rs \in BOOLEAN,
        n \in [Sources -> 0..MaxFound], x \in [Sources -> FailurePoints]}

DiscoverAllInit ==
    /\ videos = <<>>
    /\ transcripts = <<>>
    /\ disk = [p \in Paths |-> "absent"]
    /\ queue = [t \in Tasks |-> 0]
    /\ workers = [w \in Workers |-> Idle]
    /\ dispatched = 0
    /\ sweep_log = {}
    /\ has_update_download_status = FALSE
    /\ call \in DiscoverCalls

\* the call goes on to the next source, or returns all_videos (line 133)
SourceDone(c, s) ==
    [c EXCEPT !.at = NextSource(s),
              !.pc = IF NextSource(s) = "done" THEN "done" ELSE "query"]

\* the exception leaves discover_videos: nothing is returned
source_failed_propagates(c, s) ==
    [c EXCEPT !.at = "done", !.pc = "done", !.raised = TRUE,
              !.all_videos = <<>>]

\* discovery_service.py 99-100, 129-130: except Exception: logger.error(...);
\* the source's videos are not added and the call goes on
source_failed(c, s) == SourceDone(c, s)

\* discovery_service.py 95-97, 125-127: all_videos.extend(<source>_videos)
source_extend(c, s) ==
    SourceDone([c EXCEPT !.all_videos = @ \o FoundFrom(s, c.found[s])], s)

\* discovery_service.py 73-87, 103-117: the source is skipped under a filter
\* for the other one, else its scraper is queried
discover_source_query(s) ==
    /\ call.kind = "discover_all"
    /\ call.pc = "query"
    /\ call.at = s
    /\ call' = IF ~(call.source = None \/ call.source = s)
               THEN SourceDone(call, s)
               ELSE IF call.fails[s] = "scrape"
                    THEN source_failed(call, s)
                    ELSE IF call.resolve_streams
                         THEN [call EXCEPT !.pc = "resolve"]
                         ELSE source_extend(call, s)
    /\ UNCHANGED disk
    /\ UNCHANGED pipeline_vars

\* discovery_service.py 89-97, 119-127: every video of the source is
\* resolved, then the videos are added
discover_source_resolve(s) ==
    /\ call.kind = "discover_all"
    /\ call.pc = "resolve"
    /\ call.at = s
    /\ call' = IF call.fails[s] = "resolve" /\ call.found[s] > 0
               THEN source_failed(call, s)
               ELSE source_extend(call, s)
    /\ UNCHANGED disk
    /\ UNCHANGED pipeline_vars

DiscoverAllNext ==
    \/ \E s \in Sources : discover_source_query(s)
    \/ \E s \in Sources : discover_source_resolve(s)

DiscoverAllSpec == DiscoverAllInit /\ [][DiscoverAllNext]_vars

(* ---------------- two discovery runs on one store, by steps ------------ *)

\* the discovery runs that share the store
Runs == {1, 2}

\* the lists discover_videos hands to a run: videos of one source, none twice
RunLists ==
    {<<a>> : a \in StoreIds}
    \cup {l \in [1..2 -> StoreIds] : l[1] # l[2]}

\* the source of the videos the runs find
RunSource == "house"

RacingInit ==
    /\ videos = <<>>
    /\ transcripts = <<>>
    /\ disk = [p \in Paths |-> "absent"]
    /\ queue = [t \in Tasks |-> 0]
    /\ workers = [w \in Workers |-> Idle]
    /\ dispatched = 0
    /\ sweep_log = {}
    /\ has_update_download_status = FALSE
    /\ \E l \in [Runs -> RunLists] :
          call = [kind |-> "runs",
                  runs |-> [r \in Runs |->
                              [pc |-> "check", k |-> 1, list |-> l[r],
                               aborted |-> FALSE, sent |-> <<>>]]]

\* the video the run's for loop is at
VideoAt(r) == call.runs[r].list[call.runs[r].k]

\* state_service.py 36: if not self.db.video_exists(video_id, source)
discovered_check(r) ==
    /\ call.runs[r].pc = "check"
    /\ call' = [call EXCEPT !.runs[r].pc =
                   IF video_exists(videos, VideoAt(r), RunSource)
                   THEN "dispatch" ELSE "insert"]
    /\ UNCHANGED videos
    /\ UNCHANGED store_vars

\* state_service.py 37-45: self.db.create_video_record(...); an exception
\* of the insert leaves mark_video_discovered and the for loop of the run
discovered_insert(r) ==
    /\ call.runs[r].pc = "insert"
    /\ LET m == create_video_record(videos, VideoAt(r), RunSource)
       IN  /\ videos' = m.db
           /\ call' = IF m.raised
                      THEN [call EXCEPT !.runs[r].pc = "done",
                                        !.runs[r].aborted = TRUE]
                      ELSE [call EXCEPT !.runs[r].pc = "dispatch"]
    /\ UNCHANGED store_vars

\* tasks.py 87: download_video_task.apply_async(...), then the next video
discovered_dispatch(r) ==
    /\ call.runs[r].pc = "dispatch"
    /\ call' = [call EXCEPT
          !.runs[r].sent = Append(@, VideoAt(r)),
          !.runs[r].k = @ + 1,
          !.runs[r].pc = IF call.runs[r].k + 1 > Len(call.runs[r].list)
                         THEN "done" ELSE "check"]
    /\ UNCHANGED videos
    /\ UNCHANGED store_vars

RacingNext ==
    \/ \E r \in Runs : discovered_check(r)
    \/ \E r \in Runs : discovered_insert(r)
    \/ \E r \in Runs : discovered_dispatch(r)

RacingSpec == RacingInit /\ [][RacingNext]_vars

(* ----------------- the date window of discover_videos ------------------ *)

\* the days a video can be dated at, and a window bound can lie at
MaxDay == 2

\* a datetime: its position in time, and whether it carries a tzinfo
Dates == [t : 0..MaxDay, aware : BOOLEAN]

\* the None of a date argument that is not given
NoDate == [t |-> -1, aware |-> FALSE]

\* discovery_service.py 63: datetime.now() - timedelta(days=cutoff_days)
DefaultCutoff == [t |-> 1, aware |-> FALSE]

\* Python compares two datetimes only when both or neither carry a tzinfo;
\* otherwise the comparison raises TypeError
Comparable(a, b) == a.aware = b.aware

\* d.replace(tzinfo=timezone.utc): the reading of the clock is kept
replace_utc(d) == [d EXCEPT !.aware = TRUE]

\* the windows the callers ask for: a date range (tasks.py 73-78, the
\* dashboard), a cutoff (tasks.py 80-81, main.py 114-120), the default
Windows ==
    {[start_date |-> s, end_date |-> e, cutoff_date |-> NoDate] :
        s \in Dates, e \in Dates}
    \cup {[start_date |-> NoDate, end_date |-> NoDate, cutoff_date |-> c] :
            c \in Dates \cup {NoDate}}
    \cup {[start_date |-> s, end_date |-> NoDate, cutoff_date |-> c] :
            s \in Dates, c \in Dates}

\* discovery_service.py 58-66: the range is used when both ends are given,
\* else the cutoff, which defaults to cutoff_days back from now
use_date_range(w) == w.start_date # NoDate /\ w.end_date # NoDate

cutoff_of(w) ==
    IF use_date_range(w) THEN w.start_date
    ELSE IF w.cutoff_date = NoDate THEN DefaultCutoff ELSE w.cutoff_date

\* HouseScraper._parse_video_link: a date before the cutoff gives None, and
\* so does the TypeError of the comparison (except Exception, 215-217)
house_parse_video_link(d, cutoff) ==
    IF ~Comparable(d, cutoff) THEN NoDate
    ELSE IF d.t < cutoff.t THEN NoDate ELSE d

RECURSIVE house_parse_archive_html(_, _, _, _)
\* HouseScraper._parse_archive_html: the links of the page in order; a
\* video after filter_end is skipped; a TypeError of that comparison leaves
\* the function
house_parse_archive_html(listed, filter_start, filter_end, acc) ==
    IF listed = <<>> THEN [raised |-> FALSE, videos |-> acc]
    ELSE LET video == house_parse_video_link(Head(listed), filter_start)
         IN  IF video = NoDate
             THEN house_parse_archive_html(Tail(listed), filter_start,
                                           filter_end, acc)
             ELSE IF filter_end # NoDate /\ ~Comparable(video, filter_end)
                  THEN [raised |-> TRUE, videos |-> <<>>]
                  ELSE IF filter_end # NoDate /\ video.t > filter_end.t
                       THEN house_parse_archive_html(Tail(listed),
                                filter_start, filter_end, acc)
                       ELSE house_parse_archive_html(Tail(listed),
                                filter_start, filter_end, Append(acc, video))

\* HouseScraper.discover_videos 39-94: a year whose page fails is skipped
\* (70-72), the final filter is applied, any exception gives []
house_discover_videos(listed, cutoff, start, end) ==
    LET ranged == start # NoDate /\ end # NoDate
        filter_start == IF ranged THEN start ELSE cutoff
        filter_end == IF ranged THEN end ELSE NoDate
        page == house_parse_archive_html(listed, filter_start, filter_end,
                                         <<>>)
        all_videos == IF page.raised THEN <<>> ELSE page.videos
        fails == \E k \in 1..Len(all_videos) :
                    \/ ~Comparable(all_videos[k], filter_start)
                    \/ filter_end # NoDate
                          /\ ~Comparable(all_videos[k], filter_end)
    IN  IF fails THEN <<>>
        ELSE SelectSeq(all_videos,
                 LAMBDA v : /\ filter_start.t <= v.t
                            /\ filter_end # NoDate => v.t <= filter_end.t)

\* the date-range test of _parse_video_data with the upper bound left out
senate_in_range_no_end(d, cutoff, start, end) ==
    IF start # NoDate /\ end # NoDate
    THEN LET date_to_compare == IF d.aware THEN d ELSE replace_utc(d)
             start_n == IF start.aware THEN start ELSE replace_utc(start)
         IN  start_n.t <= date_to_compare.t
    ELSE LET mixed == d.aware # cutoff.aware
             date_to_compare == IF mixed THEN replace_utc(d) ELSE d
             cutoff_date_aware == IF mixed THEN replace_utc(cutoff)
                                  ELSE cutoff
         IN  ~(date_to_compare.t < cutoff_date_aware.t)

\* SenateScraper._parse_video_data 186-233: whether the video passes the
\* date filter; a datetime without tzinfo is read as UTC
senate_in_range(d, cutoff, start, end) ==
    IF start # NoDate /\ end # NoDate
    THEN LET date_to_compare == IF d.aware THEN d ELSE replace_utc(d)
             start_n == IF start.aware THEN start ELSE replace_utc(start)
             end_n == IF end.aware THEN end ELSE replace_utc(end)
         IN  start_n.t <= date_to_compare.t /\ date_to_compare.t <= end_n.t
    ELSE LET mixed == d.aware # cutoff.aware
             date_to_compare == IF mixed THEN replace_utc(d) ELSE d
             cutoff_date_aware == IF mixed THEN replace_utc(cutoff)
                                  ELSE cutoff
         IN  ~(date_to_compare.t < cutoff_date_aware.t)

\* SenateScraper.discover_videos 105-126: the videos that parse, in order,
\* with date_recorded as it was parsed
senate_discover_videos(listed, cutoff, start, end) ==
    SelectSeq(listed, LAMBDA d : senate_in_range(d, cutoff, start, end))

\* DiscoveryService.discover_videos 58-87, 103-117 for one source
discover_window(source, listed, w) ==
    LET start == IF use_date_range(w) THEN w.start_date ELSE NoDate
        end == IF use_date_range(w) THEN w.end_date ELSE NoDate
    IN  IF source = "house"
        THEN house_discover_videos(listed, cutoff_of(w), start, end)
        ELSE senate_discover_videos(listed, cutoff_of(w), start, end)

\* what an archive lists: the House page gives dates without a time zone
\* (parse_house_date), the Senate API dates with or without one
Listings(source) ==
    UNION {[1..n -> IF source = "house"
                    THEN {d \in Dates : ~d.aware} ELSE Dates] :
              n \in 0..MaxFound}

WindowInit ==
    /\ videos = <<>>
    /\ transcripts = <<>>
    /\ disk = [p \in Paths |-> "absent"]
    /\ queue = [t \in Tasks |-> 0]
    /\ workers = [w \in Workers |-> Idle]
    /\ dispatched = 0
    /\ sweep_log = {}
    /\ has_update_download_status = FALSE
    /\ \E s \in Sources, w \in Windows :
          \E l \in Listings(s) :
             call = [kind |-> "window", pc |-> "start", source |-> s,
                     window |-> w, listed |-> l, returned |-> <<>>]

\* discover_videos(source=<source>, ...) is called and returns
window_discover(s) ==
    /\ call.pc = "start"
    /\ call.source = s
    /\ call' = [call EXCEPT
          !.pc = "done",
          !.returned = discover_window(s, call.listed, call.window)]
    /\ UNCHANGED disk
    /\ UNCHANGED pipeline_vars

WindowNext == \E s \in Sources : window_discover(s)

WindowSpec == WindowInit /\ [][WindowNext]_vars

(* ------------------- three videos through the pipeline ----------------- *)

\* the videos one discovery run finds, all of one source
ScenarioIds == {"v1", "v2", "v3"}
ScenarioSource == "house"
ScenarioFound == <<<<"v1", ScenarioSource>>, <<"v2", ScenarioSource>>,
                   <<"v3", ScenarioSource>>>>

\* what the archive delivers for each video: a video for two of them, a
\* body under the minimum plausible size, empty or not, for the third
ScenarioPayloads ==
    {[id \in ScenarioIds |-> IF id = "v3" THEN u ELSE "video"] :
        u \in {"small", "empty"}}

ScenarioInit ==
    /\ videos = <<>>
    /\ transcripts = <<>>
    /\ disk = [p \in {VideoPath(id) : id \in ScenarioIds}
                     \cup {AudioPath(id) : id \in ScenarioIds} |-> "absent"]
    /\ queue = [t \in {"download", "transcribe"} \X ScenarioIds
                        \X {ScenarioSource} |-> 0]
    /\ workers = [w \in Workers |-> Idle]
    /\ dispatched = 0
    /\ sweep_log = {}
    /\ has_update_download_status \in BOOLEAN
    /\ \E p \in ScenarioPayloads :
          call = [pc |-> "scenario", payloads |-> p]

\* one run of discover_videos_task on the empty store
scenario_discover ==
    /\ videos = <<>>
    /\ discover_videos_task(ScenarioFound)

\* DownloadService.download_video where the transfer ends with what the
\* archive delivers for the video
scenario_transfer(w) ==
    /\ download_service_transfer(w)
    /\ workers'[w].payload = call.payloads[workers[w].id]

\* every download task of the run has been taken and has ended
DownloadsRan ==
    /\ Len(videos) = Cardinality(ScenarioIds)
    /\ \A id \in ScenarioIds : queue[<<"download", id, ScenarioSource>>] = 0
    /\ \A w \in Workers :
          workers[w].pc \notin {"dl_check", "dl_transfer", "dl_mark",
                                "dl_extracting", "dl_extract"}

\* one run of requeue_failed_tasks after the download tasks have run
scenario_requeue ==
    LET r == RequeueResult(videos, queue, disk)
        n == QueueCount(r.queue) - QueueCount(queue)
    IN  /\ DownloadsRan
        /\ sweep_log = {}
        /\ n > 0
        /\ videos' = r.db
        /\ queue' = r.queue
        /\ sweep_log' = r.log
        /\ dispatched' = dispatched + n
        /\ UNCHANGED <<transcripts, disk, workers,
                       has_update_download_status, call>>

ScenarioNext ==
    \/ scenario_discover
    \/ \E w \in Workers, id \in ScenarioIds :
          download_task_start(w, id, ScenarioSource)
    \/ \E w \in Workers : download_service_check(w)
    \/ \E w \in Workers : scenario_transfer(w)
    \/ \E w \in Workers : download_task_mark(w)
    \/ \E w \in Workers : download_task_extracting(w)
    \/ \E w \in Workers : download_task_extract(w)
    \/ \E w \in Workers, id \in ScenarioIds :
          transcribe_task_start(w, id, ScenarioSource)
    \/ \E w \in Workers : transcribe_task_run(w)
    \/ \E w \in Workers : transcribe_task_mark(w)
    \/ scenario_requeue

ScenarioSpec == ScenarioInit /\ [][ScenarioNext]_vars

(* ------------------------------ properties ------------------------------ *)

Rows == 1..Len(videos)

\* C1: in every reachable state every record has download_path set if and
\* only if its download_status is "downloaded"
C1_DownloadPathIffDownloaded ==
    \A i \in Rows :
        (videos[i].download_path # NoPath)
            <=> (videos[i].download_status = "downloaded")

\* C2: transcribe_audio_task writes transcription_status = in_progress only
\* from a state where the record's audio_status is "extracted"
C2_TranscriptionOnlyAfterExtraction ==
    [][\A w \in Workers, v \in Videos :
          (transcribe_task_start(w, v[1], v[2]) /\ workers'[w].pc = "tr_run")
              => get_video_record(videos, v[1], v[2]).audio_status
                    = "extracted"]_vars

\* C3: no two workers execute a pipeline task for the same (video_id, source)
\* at the same time
C3_OneWorkerPerVideo ==
    \A w1, w2 \in Workers :
        (w1 # w2 /\ workers[w1].pc # "idle" /\ workers[w2].pc # "idle")
            => <<workers[w1].id, workers[w1].source>>
                   # <<workers[w2].id, workers[w2].source>>

\* the transcript rows of a video
TranscriptsOf(ts, id) == {k \in 1..Len(ts) : ts[k].video_id = id}

\* C4: once a record's transcription is completed, no step other than a
\* sweep of requeue_failed_tasks changes any of its stage fields or adds a
\* transcript row for it
C4_CompletedNeverReprocessed ==
    [][\A i \in Rows :
          videos[i].transcription_status = "completed"
              => \/ requeue_failed_tasks
                 \/ /\ videos'[i].download_status = videos[i].download_status
                    /\ videos'[i].audio_status = videos[i].audio_status
                    /\ videos'[i].transcription_status = "completed"
                    /\ TranscriptsOf(transcripts', videos[i].id)
                          = TranscriptsOf(transcripts, videos[i].id)]_vars

\* C5: a run of discovery leaves every registered record as it was (stage
\* fields included) and adds no second record for a registered
\* (video_id, source)
C5_RediscoveryIsNoOp ==
    [][(\E found \in Batches : discover_videos_task(found))
          => /\ SubSeq(videos', 1, Len(videos)) = videos
             /\ \A v \in Videos :
                   video_exists(videos, v[1], v[2])
                       => Cardinality(Matching(videos', v[1], v[2])) = 1]_vars

\* a registered record whose download stage has left pending, in a state
\* where a discovery run that finds it again can be taken
C5_Witness ==
    \E i \in Rows :
        /\ videos[i].download_status # "pending"
        /\ ENABLED discover_videos_task(<< <<videos[i].id, videos[i].source>> >>)

\* the order pending -> in-progress -> {success | failed} of a stage field
StageRank(status) ==
    CASE status = "pending" -> 0
      [] status \in {"in_progress", "extracting"} -> 1
      [] OTHER -> 2

Advances(old, new) ==
    old = new \/ StageRank(old) < StageRank(new)

\* C6: in every step other than a sweep of requeue_failed_tasks each of the
\* three stage fields of each record stays the same or moves forward in the
\* order pending -> in-progress -> {success | failed}
C6_StagesOnlyAdvance ==
    [][requeue_failed_tasks
       \/ \A i \in Rows :
            /\ Advances(videos[i].download_status, videos'[i].download_status)
            /\ Advances(videos[i].audio_status, videos'[i].audio_status)
            /\ Advances(videos[i].transcription_status,
                        videos'[i].transcription_status)]_vars

\* what a sweep did to one record
TaskOf(kind, record) == <<kind, record.id, record.source>>

OnlyTranscriptionRetried(i) ==
    /\ queue'[TaskOf("transcribe", videos[i])]
          = queue[TaskOf("transcribe", videos[i])] + 1
    /\ queue'[TaskOf("download", videos[i])]
          = queue[TaskOf("download", videos[i])]
    /\ videos'[i].download_status = videos[i].download_status
    /\ videos'[i].audio_status = videos[i].audio_status
    /\ videos'[i].download_path = videos[i].download_path
    /\ videos'[i].audio_path = videos[i].audio_path

C8_MissingAudioRestartsDownload ==
    [][requeue_failed_tasks
          => \A i \in Rows :
                (/\ videos[i].transcription_status = "failed"
                 /\ ~AudioExists(videos[i], disk))
                    => /\ videos'[i].download_status = "pending"
                       /\ videos'[i].transcription_status = "pending"
                       /\ queue'[TaskOf("download", videos[i])]
                             > queue[TaskOf("download", videos[i])]
                       /\ queue'[TaskOf("transcribe", videos[i])]
                             = queue[TaskOf("transcribe", videos[i])]]_vars

\* the last sweep logged a restart from the download for a record whose
\* audio file is gone; the record is pending in both stages and its download
\* task waits in the queue
C8_Witness ==
    \E i \in Rows :
        /\ <<"Restarting download", videos[i].id, videos[i].source>>
              \in sweep_log
        /\ ~AudioExists(videos[i], disk)
        /\ videos[i].download_status = "pending"
        /\ videos[i].transcription_status = "pending"
        /\ queue[TaskOf("download", videos[i])] = 1
        /\ queue[TaskOf("transcribe", videos[i])] = 0

\* C9: a sweep of requeue_failed_tasks sets the download_status of every
\* record with download_status = failed to pending and dispatches a download
\* task for it, whatever its transcription_status
C9_FailedDownloadRetried ==
    [][requeue_failed_tasks
          => \A i \in Rows :
                videos[i].download_status = "failed"
                    => /\ videos'[i].download_status = "pending"
                       /\ queue'[TaskOf("download", videos[i])]
                             > queue[TaskOf("download", videos[i])]]_vars

\* the last sweep found a record failed in both stages with its audio file
\* on disk: it logged the transcription retry of the first loop and the
\* download retry of the second, and left download_status pending
C9_Witness ==
    \E i \in Rows :
        /\ {<<"Re-queueing transcription", videos[i].id, videos[i].source>>,
            <<"Retrying download", videos[i].id, videos[i].source>>}
              \subseteq sweep_log
        /\ videos[i].transcription_status = "failed"
        /\ videos[i].download_status = "pending"
        /\ queue[TaskOf("download", videos[i])] = 1

\* C10: when DownloadService.download_video returns after a transfer whose
\* payload began with an HTML document signature, the result is a failure,
\* the record's download_status is failed and no file is at the destination
C10_HtmlPayloadFails ==
    \A w \in Workers :
        (workers[w].pc = "dl_mark" /\ workers[w].payload = "html")
            => /\ ~workers[w].success
               /\ get_video_record(videos, workers[w].id,
                                   workers[w].source).download_status = "failed"
               /\ disk[VideoPath(workers[w].id)] = "absent"

\* the payloads under the minimum plausible size of 1000 bytes
Undersized == {"small", "empty"}

\* the payloads content validation rejects or ought to reject
Invalid == {"html", "small", "empty"}

\* C11: when VideoDownloader.download returns after a transfer of fewer
\* bytes than the minimum plausible file size, zero bytes included, the
\* result is a failure and no file is at the destination
C11_UndersizedRejected ==
    (call.pc = "done" /\ call.payload \in Undersized)
        => /\ ~call.success
           /\ disk[Destination] = "absent"

\* C12: within one call of VideoDownloader.download no transfer attempt
\* follows an attempt that delivered an HTML page or an undersized file
C12_NoRetryAfterValidationFailure ==
    call.pc # "none"
        => \A k \in 1..Len(call.tried) :
              k < Len(call.tried) => call.tried[k] \notin Invalid

\* what the direct transfer of the call has done so far is within the retry
\* policy: at most max_retries attempts, none after a successful one, and a
\* failure returned only when max_retries attempts have failed
WithinRetryPolicy ==
    /\ Len(call.tried) <= max_retries
    /\ \A k \in 1..Len(call.tried) :
          k < Len(call.tried)
              => ~download_with_progress("absent", call.tried[k]).success
    /\ (call.pc = "done" /\ call.tried # <<>>)
          => /\ call.success
                <=> download_with_progress(
                        "absent", call.tried[Len(call.tried)]).success
             /\ ~call.success => Len(call.tried) = max_retries

\* C13: every call of VideoDownloader.download returns, and on a direct
\* file URL it has then made at most max_retries transfer attempts, none
\* after a successful one, and it returns a failure only when max_retries
\* attempts have all failed
C13_DownloadTerminates ==
    /\ [](call.pc # "none" => WithinRetryPolicy)
    /\ <>(call.pc = "done")

\* a call on a direct URL has returned a failure after max_retries attempts
C13_Witness ==
    /\ call.pc = "done"
    /\ call.url = "direct"
    /\ ~call.success
    /\ Len(call.tried) = max_retries

\* the record a worker's task is about
RecordOf(w) == get_video_record(videos, workers[w].id, workers[w].source)

\* C14: download_video_task writes audio_status = extracting only from a
\* state where the record's download_status is "downloaded"
C14_ExtractionOnlyAfterDownload ==
    [][\A w \in Workers :
          download_task_extracting(w)
              => RecordOf(w).download_status = "downloaded"]_vars

\* C15: the step of download_video_task in which extract_audio fails sets
\* audio_status to failed and leaves every other field of the record,
\* download_status and download_path among them, as it was
C15_FailedExtractionKeepsDownload ==
    [][\A w \in Workers :
          (download_task_extract(w) /\ queue' = queue)
              => get_video_record(videos', workers[w].id, workers[w].source)
                    = [RecordOf(w) EXCEPT !.audio_status = "failed"]]_vars

\* a record whose extraction has failed, still downloaded with its path
C15_Witness ==
    \E i \in Rows :
        /\ videos[i].audio_status = "failed"
        /\ videos[i].download_status = "downloaded"
        /\ videos[i].download_path = VideoPath(videos[i].id)
        /\ \A w \in Workers : workers[w].pc = "idle"

\* C16: in every reachable state a record whose transcription_status is
\* completed has at least one transcript row with its video_id
C16_CompletedHasTranscript ==
    \A i \in Rows :
        videos[i].transcription_status = "completed"
            => TranscriptsOf(transcripts, videos[i].id) # {}

\* a transcription task has finished: the record is completed, with its row
C16_Witness ==
    \E i \in Rows :
        /\ videos[i].transcription_status = "completed"
        /\ TranscriptsOf(transcripts, videos[i].id) # {}
        /\ \A w \in Workers : workers[w].pc = "idle"

\* C17: the step of transcribe_audio_task in which the provider or the
\* persisting raises sets transcription_status to failed and leaves every
\* other field of the record, audio_path, audio_status, download_path and
\* download_status among them, as it was
C17_FailedTranscriptionKeepsAudio ==
    [][\A w \in Workers :
          (transcribe_task_run(w) /\ workers'[w].pc = "idle")
              => get_video_record(videos', workers[w].id, workers[w].source)
                    = [RecordOf(w) EXCEPT !.transcription_status = "failed"]]_vars

\* a record whose transcription has failed, with its audio extracted and on
\* record
C17_Witness ==
    \E i \in Rows :
        /\ videos[i].transcription_status = "failed"
        /\ videos[i].audio_status = "extracted"
        /\ videos[i].audio_path = AudioPath(videos[i].id)
        /\ videos[i].download_status = "downloaded"
        /\ \A w \in Workers : workers[w].pc = "idle"

\* C18: every step leaves the existing transcript rows as they are and adds
\* at most one, and a successful transcription attempt adds exactly one
C18_TranscriptsAppendOnly ==
    [][/\ Len(transcripts') \in {Len(transcripts), Len(transcripts) + 1}
       /\ SubSeq(transcripts', 1, Len(transcripts)) = transcripts
       /\ \A w \in Workers :
             (transcribe_task_run(w) /\ workers'[w].pc = "tr_mark")
                 => Len(transcripts') = Len(transcripts) + 1]_vars

\* two attempts on one video have each left their row
C18_Witness ==
    \E k1, k2 \in 1..Len(transcripts) :
        /\ k1 < k2
        /\ transcripts[k1].video_id = transcripts[k2].video_id

\* an exception leaves DownloadService.download_video: the worker's task
\* ends inside the service, without a DownloadResult
Raises(w) ==
    /\ workers[w].pc \in {"dl_check", "dl_transfer"}
    /\ workers'[w].pc = "idle"

\* C19: no step of DownloadService.download_video raises, and a transfer
\* that fails is returned as a failed result with download_status persisted
\* as failed
C19_DownloadVideoNeverRaises ==
    [][\A w \in Workers :
          /\ ~Raises(w)
          /\ (download_service_transfer(w) /\ ~workers'[w].success)
                => get_video_record(videos', workers[w].id,
                                    workers[w].source).download_status
                      = "failed"]_vars

InProgress(v) ==
    /\ get_video_record(videos, v[1], v[2]) # NoRecord
    /\ \/ get_video_record(videos, v[1], v[2]).download_status = "in_progress"
       \/ get_video_record(videos, v[1], v[2]).transcription_status
             = "in_progress"

\* C20: with every worker running on and the sweep repeated, a record whose
\* download_status or transcription_status is in_progress later leaves
\* in_progress, also when the task that held it has ended by an exception
C20_InProgressEnds ==
    \A v \in Videos : InProgress(v) ~> ~InProgress(v)

\* one of the three stages of the record is failed
StuckFailed(r) ==
    \/ r.download_status = "failed"
    \/ r.audio_status = "failed"
    \/ r.transcription_status = "failed"

\* the tasks waiting in a queue for a record
TasksFor(q, r) == q[TaskOf("download", r)] + q[TaskOf("transcribe", r)]

\* C21: in every reachable state a run of requeue_failed_tasks dispatches a
\* task for every record whose download_status, audio_status or
\* transcription_status is failed
C21_FailedIsRequeued ==
    \A i \in Rows :
        StuckFailed(videos[i])
            => TasksFor(RequeueResult(videos, queue, disk).queue, videos[i])
                  > TasksFor(queue, videos[i])

\* C22: a download_video_task that starts on a record whose last download
\* failed and which holds a resolved stream URL hands download_video a video
\* without stream_url, so that the resolver is invoked again (the branch of
\* download_service.py 69-72) and the stored URL is not reused
C22_FailedUrlResolvedAgain ==
    [][\A w \in Workers, v \in Videos :
          (/\ download_task_start(w, v[1], v[2])
           /\ get_video_record(videos, v[1], v[2]) # NoRecord
           /\ get_video_record(videos, v[1], v[2]).download_status = "failed"
           /\ get_video_record(videos, v[1], v[2]).stream_url # None)
              => workers'[w].stream_url = None]_vars

\* C29: whenever VideoDownloader.download has returned a failure, no file is
\* at the destination path, also when a transfer was interrupted after part
\* of the payload had been written
C29_NothingWrittenOnFailure ==
    (call.pc = "done" /\ ~call.success)
        => disk[Destination] = "absent"

\* C28: in every reachable state a discovery run leaves a record registered
\* for every (video_id, source) it finds, also when the same video_id is
\* already registered under the other source, and no step changes the id or
\* the source of a record
C28_KeyedByIdAndSource ==
    /\ [](\A found \in Batches :
             \A k \in 1..Len(found) :
                video_exists(DiscoverLoop(videos, queue, found).db,
                             found[k][1], found[k][2]))
    /\ [][\A i \in Rows :
             /\ videos'[i].id = videos[i].id
             /\ videos'[i].source = videos[i].source]_vars

\* C30: when download_video_task records a failed download, some field of
\* the record holds the reason of the failure afterwards (the model carries
\* the reason as what the last transfer attempt delivered)
C30_FailureReasonStored ==
    [][\A w \in Workers :
          (/\ download_task_mark(w)
           /\ ~workers[w].success
           /\ workers[w].payload # None)
              => \E f \in DOMAIN get_video_record(videos', workers[w].id,
                                                  workers[w].source) :
                    get_video_record(videos', workers[w].id,
                                     workers[w].source)[f]
                        = workers[w].payload]_vars

\* the fields update_video_status takes as keyword arguments
StatusFields == {"download_status", "audio_status", "transcription_status",
                 "download_path", "audio_path"}

\* the caller gave the keyword argument
Supplied(u, f) == u[f] # NoUpdate[f]

\* the last call of the store, and the rows it addressed
Addressed(i) ==
    /\ call.before[i].id = call.id
    /\ call.before[i].source = call.source

C27_CreateExistingFails ==
    (/\ call.pc = "store"
     /\ call.op = "create"
     /\ video_exists(call.before, call.id, call.source))
        => /\ call.raised
           /\ videos = call.before

\* create_video_record has been called for a record that was registered and
\* had left pending
C27_Witness ==
    /\ call.pc = "store"
    /\ call.op = "create"
    /\ video_exists(call.before, call.id, call.source)
    /\ get_video_record(call.before, call.id, call.source).download_status
          # "pending"
    /\ call.raised

\* the constructed house URL was probed and the probe did not verify it
ProbeFailed ==
    /\ call.source = "house"
    /\ call.param
    /\ \/ call.head \in {"nothing", "garbled", "404", "error"}
       \/ call.head = "redirect" /\ call.redirect # "video"

\* C23: when resolve_stream_url has returned, the deterministic construction
\* was its first step and no API request came before it, and if the
\* deterministic URL failed its probe while the API gave a URL, the URL
\* returned is the API's
C23_ResolverCostOrder ==
    (call.pc = "done" /\ call.kind = "resolve")
        => /\ call.steps # <<>> => call.steps[1] = "deterministic"
           /\ \A j, k \in 1..Len(call.steps) :
                 j < k => ~(call.steps[j] = "api"
                            /\ call.steps[k] = "deterministic")
           /\ (ProbeFailed /\ call.api = "url") => call.result = "api_url"

\* no step of the source's chain produced a usable URL
AllStepsFailed ==
    IF call.source = "house" THEN ~call.param \/ ProbeFailed
    ELSE call.api # "url"

\* C24: when resolve_stream_url has returned and every step of the chain
\* failed, it has returned None and no unverified URL
C24_UnresolvedWhenChainFails ==
    (call.pc = "done" /\ call.kind = "resolve" /\ AllStepsFailed)
        => call.result = None

\* C25: when a discovery run that was not asked for eager resolution has
\* returned, it has called no resolver and sent no request to the
\* resolution API
C25_DiscoveryDoesNotResolve ==
    (call.pc = "done" /\ call.kind = "discover" /\ call.caller # "eager")
        => /\ call.resolver_calls = 0
           /\ call.api_requests = 0

\* the download statuses DownloadService.download_video marks, each with the
\* path it passes
MarksOfDownloadVideo ==
    {<<"in_progress", NoPath>>, <<"downloaded", VideoPath("v1")>>,
     <<"failed", NoPath>>}

\* C33: in every reachable state a call of mark_video_processed for a
\* registered video, with any status and path download_video passes, returns
\* normally and leaves the record with that download_status, and with the
\* download_path when one was given
C33_MarkReachesStore ==
    \A i \in Rows : \A m \in MarksOfDownloadVideo :
        LET r == mark_video_processed(videos, videos[i].id, videos[i].source,
                                      m[1], m[2])
            after == get_video_record(r.db, videos[i].id, videos[i].source)
        IN  /\ ~r.raised
            /\ after.download_status = m[1]
            /\ m[2] # NoPath => after.download_path = m[2]

\* C35: in every reachable state audio_status in {extracting, extracted,
\* failed} implies download_status = downloaded, and transcription_status in
\* {in_progress, completed, failed} implies audio_status = extracted
C35_StagesConsistent ==
    \A i \in Rows :
        /\ videos[i].audio_status \in {"extracting", "extracted", "failed"}
              => videos[i].download_status = "downloaded"
        /\ videos[i].transcription_status
                 \in {"in_progress", "completed", "failed"}
              => videos[i].audio_status = "extracted"

\* C36: in every reachable state a run of requeue_failed_tasks dispatches at
\* most one task for each record
C36_OneTaskPerRecordPerSweep ==
    \A i \in Rows :
        TasksFor(RequeueResult(videos, queue, disk).queue, videos[i])
            <= TasksFor(queue, videos[i]) + 1

\* C32: a transcribe_audio_task that starts on a record which is missing or
\* has no audio_path does not return with the store as it was: the record
\* is there afterwards with transcription_status = failed
C32_PreconditionViolationIsLoud ==
    [][\A w \in Workers, v \in Videos :
          (/\ transcribe_task_start(w, v[1], v[2])
           /\ \/ get_video_record(videos, v[1], v[2]) = NoRecord
              \/ get_video_record(videos, v[1], v[2]).audio_path = NoPath)
              => /\ get_video_record(videos', v[1], v[2]) # NoRecord
                 /\ get_video_record(videos', v[1], v[2]).transcription_status
                       = "failed"]_vars

\* C38: when a call of VideoDownloader.download that follows a failed call
\* for the same path returns a success, the file at the destination is a
\* complete and validated video, never what the failed transfer left behind
C38_LeftoverNeverReportedAsSuccess ==
    (call.pc = "done" /\ call.calls > 1 /\ call.success)
        => disk[Destination] = "video"

\* an exception was raised in the source's part of the call
SourceFailed(s) ==
    \/ call.fails[s] = "scrape"
    \/ call.fails[s] = "resolve" /\ call.resolve_streams /\ call.found[s] > 0

\* C39: when discover_videos without a source filter has returned, no
\* exception has left it, and every video found from a source whose part did
\* not fail is in the list returned, whatever happened in the other source
C39_OneSourceFailureKeepsTheOther ==
    (call.pc = "done" /\ call.source = None)
        => /\ ~call.raised
           /\ \A s \in Sources :
                 ~SourceFailed(s)
                     => \A k \in 1..call.found[s] :
                           \E j \in 1..Len(call.all_videos) :
                              call.all_videos[j] = <<s, k>>

\* the call has returned the videos of one source after the other failed
C39_Witness ==
    /\ call.pc = "done"
    /\ call.source = None
    /\ \E s, t \in Sources :
          /\ SourceFailed(s)
          /\ ~SourceFailed(t)
          /\ call.found[t] > 0
          /\ call.all_videos = FoundFrom(t, call.found[t])

\* C37: with two discovery runs registering on one store, no (video_id,
\* source) has more than one record, no run is aborted by an insert, and a
\* run that has ended has registered and dispatched every video of its list
C37_ConcurrentRegistration ==
    /\ \A id \in StoreIds : Cardinality(Matching(videos, id, RunSource)) <= 1
    /\ \A r \in Runs :
          /\ ~call.runs[r].aborted
          /\ call.runs[r].pc = "done"
                => /\ call.runs[r].sent = call.runs[r].list
                   /\ \A k \in 1..Len(call.runs[r].list) :
                         video_exists(videos, call.runs[r].list[k], RunSource)

\* a date lies in the window asked for, a datetime without tzinfo read as UTC
InWindow(d, w) ==
    IF use_date_range(w)
    THEN w.start_date.t <= d.t /\ d.t <= w.end_date.t
    ELSE cutoff_of(w).t <= d.t

\* C34: every video discover_videos has returned is dated inside the window
\* asked for: between start_date and end_date when both are given, at or
\* after the cutoff otherwise
C34_ReturnedInsideWindow ==
    (call.pc = "done")
        => \A k \in 1..Len(call.returned) :
              InWindow(call.returned[k], call.window)

\* a call with a date range has returned a video and left out one that the
\* archive lists outside the range
C34_Witness ==
    /\ call.pc = "done"
    /\ use_date_range(call.window)
    /\ Len(call.returned) > 0
    /\ \E k \in 1..Len(call.listed) :
          ~InWindow(call.listed[k], call.window)

\* download_status of a video of the scenario
StageOf(db, id) == get_video_record(db, id, ScenarioSource).download_status

\* C31: once discovery has registered the three videos and no download
\* task has been taken, all three records are pending; once the download
\* tasks have run, the two videos with a valid payload are downloaded and
\* the one with the undersized payload is failed; and a run of
\* requeue_failed_tasks then leaves that record, and only it, pending with
\* a download task queued
C31_EndToEnd ==
    /\ []((/\ Len(videos) = Cardinality(ScenarioIds)
           /\ \A id \in ScenarioIds :
                 queue[<<"download", id, ScenarioSource>>] = 1
           /\ \A w \in Workers : workers[w].pc = "idle"
           /\ sweep_log = {})
             => \A id \in ScenarioIds : StageOf(videos, id) = "pending")
    /\ []((DownloadsRan /\ sweep_log = {})
             => \A id \in ScenarioIds :
                   StageOf(videos, id) =
                       IF call.payloads[id] = "video" THEN "downloaded"
                       ELSE "failed")
    /\ [][scenario_requeue
             => \A id \in ScenarioIds :
                   IF call.payloads[id] = "video"
                   THEN /\ StageOf(videos', id) = "downloaded"
                        /\ queue'[<<"download", id, ScenarioSource>>] = 0
                   ELSE /\ StageOf(videos', id) = "pending"
                        /\ queue'[<<"download", id, ScenarioSource>>] = 1]_vars

====
